---------------------------- MODULE Spec2Model ----------------------------
(***************************************************************************)
(* A model of jsonpath/jsp.py: the JSONPath query runner.                  *)
(*                                                                         *)
(* One JsonPathQueryRunner is modelled as a state machine whose steps are  *)
(* the cursor operations (match / advance / at_end tests) of the parser,   *)
(* the application of one parsed selector to the result set, and the       *)
(* iterations of the recursive-descent work-list loop.  A client first     *)
(* calls parse(path) and then query(data, path) on the same path.          *)
(*                                                                         *)
(* Strings are sequences of one-character strings.  Json values are        *)
(* tagged records [t, v]; a dict is the sequence of its (key, value)       *)
(* items in insertion order.                                               *)
(***************************************************************************)
EXTENDS Integers, Sequences, FiniteSets, TLC

(***************************************************************************)
(* Bounds of the model.                                                    *)
(***************************************************************************)
MaxSegs == 2        \* segments after the leading '$' in a generated path
MaxIdx == 3         \* bare subscripts n range over -MaxIdx .. MaxIdx
MaxArrLen == 2      \* the arrays [1, ..., L] for L in 0 .. MaxArrLen are inputs

(***************************************************************************)
(* Json values.                                                            *)
(***************************************************************************)
Null == [t |-> "null", v |-> 0]
Num(n) == [t |-> "num", v |-> n]
Arr(items) == [t |-> "arr", v |-> items]
Obj(items) == [t |-> "obj", v |-> items]
Item(name, val) == [k |-> name, v |-> val]

IsDict(j) == j.t = "obj"
IsList(j) == j.t = "arr"

\* list(d.values())
Values(d) == [i \in 1..Len(d.v) |-> d.v[i].v]
\* key in d
HasKey(d, name) == \E i \in 1..Len(d.v) : d.v[i].k = name
\* d[key]
Lookup(d, name) == d.v[CHOOSE i \in 1..Len(d.v) : d.v[i].k = name].v

\* s[::-1]
Reverse(s) == [i \in 1..Len(s) |-> s[Len(s) + 1 - i]]

(***************************************************************************)
(* Optional integers (None or an int) and the selector produced by the     *)
(* parser: a str or a slice object.                                        *)
(***************************************************************************)
NoneInt == [some |-> FALSE, n |-> 0]
Some(n) == [some |-> TRUE, n |-> n]

NoKey == [t |-> "none", s |-> <<>>, start |-> NoneInt, stop |-> NoneInt, step |-> NoneInt]
StrKey(s) == [t |-> "str", s |-> s, start |-> NoneInt, stop |-> NoneInt, step |-> NoneInt]
SliceKey(a, b, c) == [t |-> "slice", s |-> <<>>, start |-> a, stop |-> b, step |-> c]
Star == StrKey(<<"*">>)

(***************************************************************************)
(* seq[slice] of the Python list type: [ok |-> FALSE] stands for the       *)
(* ValueError raised on a zero step.                                       *)
(***************************************************************************)
RECURSIVE TakeFrom(_, _, _, _)
TakeFrom(s, i, stop, step) ==
    IF (step > 0 /\ i < stop) \/ (step < 0 /\ i > stop)
    THEN <<s[i + 1]>> \o TakeFrom(s, i + step, stop, step)
    ELSE <<>>

AdjustIndex(x, len, step, dflt) ==
    IF ~x.some THEN dflt
    ELSE IF x.n < 0
         THEN (IF x.n + len < 0 THEN (IF step < 0 THEN -1 ELSE 0) ELSE x.n + len)
         ELSE (IF x.n >= len THEN (IF step < 0 THEN len - 1 ELSE len) ELSE x.n)

PySlice(s, sl) ==
    LET step == IF sl.step.some THEN sl.step.n ELSE 1
        len == Len(s)
        start == AdjustIndex(sl.start, len, step, IF step < 0 THEN len - 1 ELSE 0)
        stop == AdjustIndex(sl.stop, len, step, IF step < 0 THEN -1 ELSE len)
    IN  IF step = 0 THEN [ok |-> FALSE, items |-> <<>>]
        ELSE [ok |-> TRUE, items |-> TakeFrom(s, start, stop, step)]

(***************************************************************************)
(* The single-level selector functions.                                    *)
(***************************************************************************)
RECURSIVE apply_star(_)
apply_star(results) ==
    IF results = <<>> THEN <<>>
    ELSE LET result == Head(results)
         IN  (IF IsDict(result) THEN Values(result) ELSE <<>>)
             \o (IF IsList(result) THEN result.v ELSE <<>>)
             \o apply_star(Tail(results))

\* apply_name with each input's match put in front of the earlier ones
RECURSIVE apply_name_backward(_, _)
apply_name_backward(results, name) ==
    IF results = <<>> THEN <<>>
    ELSE LET result == Head(results)
         IN  apply_name_backward(Tail(results), name)
             \o (IF IsDict(result) /\ HasKey(result, name)
                 THEN <<Lookup(result, name)>> ELSE <<>>)

RECURSIVE apply_name(_, _)
apply_name(results, name) ==
    IF results = <<>> THEN <<>>
    ELSE LET result == Head(results)
         IN  (IF IsDict(result) /\ HasKey(result, name)
              THEN <<Lookup(result, name)>> ELSE <<>>)
             \o apply_name(Tail(results), name)

apply_key(results, key) ==
    IF key.s = <<"*">> THEN apply_star(results) ELSE apply_name(results, key.s)

RECURSIVE apply_slice(_, _)
apply_slice(results, sl) ==
    IF results = <<>> THEN [ok |-> TRUE, items |-> <<>>]
    ELSE LET result == Head(results)
             here == IF IsList(result) THEN PySlice(result.v, sl)
                     ELSE [ok |-> TRUE, items |-> <<>>]
             rest == apply_slice(Tail(results), sl)
         IN  IF ~here.ok THEN here
             ELSE IF ~rest.ok THEN rest
             ELSE [ok |-> TRUE, items |-> here.items \o rest.items]

(***************************************************************************)
(* Characters, str.isnumeric() and int() on the characters of the model.   *)
(***************************************************************************)
None == "None"
DigitChar == <<"0", "1", "2", "3", "4", "5", "6", "7", "8", "9">>
Digits == {DigitChar[i] : i \in 1..10}
isnumeric(c) == c \in Digits
DigitVal(c) == (CHOOSE i \in 1..10 : DigitChar[i] = c) - 1

RECURSIVE NatOf(_)
NatOf(ds) ==
    IF ds = <<>> THEN 0
    ELSE 10 * NatOf(SubSeq(ds, 1, Len(ds) - 1)) + DigitVal(ds[Len(ds)])

\* int("".join(k)) for a k made of an optional '-' and digits;
\* [ok |-> FALSE] stands for the ValueError of int("-")
IntOf(ks) ==
    IF ks = <<"-">> THEN [ok |-> FALSE, n |-> 0]
    ELSE IF Head(ks) = "-" THEN [ok |-> TRUE, n |-> 0 - NatOf(Tail(ks))]
    ELSE [ok |-> TRUE, n |-> NatOf(ks)]

\* the decimal numeral of an integer, used to build the subscript paths
RECURSIVE NatStr(_)
NatStr(n) ==
    IF n < 10 THEN <<DigitChar[n + 1]>>
    ELSE NatStr(n \div 10) \o <<DigitChar[(n % 10) + 1]>>

IntStr(n) == IF n < 0 THEN <<"-">> \o NatStr(0 - n) ELSE NatStr(n)

(***************************************************************************)
(* The inputs: paths and Json documents.                                   *)
(***************************************************************************)
GoodSegs ==
    { <<".", "a">>, <<".", "*">>, <<".", ".", "a">>, <<".", ".", "*">>,
      <<".", ".", "[", "*", "]">>, <<"[", "*", "]">>,
      <<"[", "'", "*", "'", "]">>, <<"[", "\"", "a", "\"", "]">>,
      <<"[", "'", "1", "'", "]">>, <<"[", ":", ":", "0", "]">>,
      <<"[", "1", ":", "]">>, <<"[", ":", ":", "-", "1", "]">>,
      <<".", ".", "[", "0", "]">> }

BadTails ==
    { <<".">>, <<"a">>, <<"[", "-", "]">>, <<"[", "'", "a">>, <<".", "'">>,
      <<"[", "*">>, <<"[", "]">>, <<".", "$">> }

RECURSIVE SegPaths(_)
SegPaths(n) ==
    IF n = 0 THEN {<<>>}
    ELSE LET P == SegPaths(n - 1)
         IN  P \cup {p \o g : p \in P, g \in GoodSegs}

\* "$[n]" and "$.n"
BracketSubscript(n) == <<"$", "[">> \o IntStr(n) \o <<"]">>
DotSubscript(n) == <<"$", ".">> \o IntStr(n)
SubscriptPaths ==
    {BracketSubscript(n) : n \in (0 - MaxIdx)..MaxIdx}
        \cup {DotSubscript(n) : n \in (0 - MaxIdx)..MaxIdx}

Paths ==
    {<<>>, <<"a">>, <<".", "a">>}
        \cup {<<"$">> \o p : p \in SegPaths(MaxSegs)}
        \cup {<<"$">> \o p \o b : p \in SegPaths(MaxSegs - 1), b \in BadTails}
        \cup SubscriptPaths

\* [1, 2, ..., n]
Iota(n) == Arr([i \in 1..n |-> Num(i)])

EmptyObj == Obj(<<>>)
\* {"a": {"b": {"a": 1}}}
DocNested == Obj(<<Item(<<"a">>, Obj(<<Item(<<"b">>, Obj(<<Item(<<"a">>, Num(1))>>))>>))>>)
\* [{"a": 1}, {"a": 2}]
DocRows == Arr(<<Obj(<<Item(<<"a">>, Num(1))>>), Obj(<<Item(<<"a">>, Num(2))>>)>>)
\* {"b": [1, 2], "*": {"a": 2}, "a": null, "1": 1}
DocKeys ==
    Obj(<<Item(<<"b">>, Iota(2)), Item(<<"*">>, Obj(<<Item(<<"a">>, Num(2))>>)),
          Item(<<"a">>, Null), Item(<<"1">>, Num(1))>>)
\* [[1, [2]], {"a": [3]}]
DocLists ==
    Arr(<<Arr(<<Num(1), Arr(<<Num(2)>>)>>), Obj(<<Item(<<"a">>, Arr(<<Num(3)>>))>>)>>)

DataSet ==
    {Null, Num(1), DocNested, DocRows, DocKeys, DocLists}
        \cup {Iota(n) : n \in 0..MaxArrLen}

(***************************************************************************)
(* State.                                                                  *)
(***************************************************************************)
VARIABLES
    path, data,             \* fields of the runner
    idx, curr,              \* the cursor: idx and _curr
    results,                \* the result set
    call,                   \* "parse" or "query": the api call in progress
    parseOut,               \* how the parse call ended, once it has
    pc,                     \* position in the runner's code, or how it ended
    k, quote_type,          \* locals of key(), bracket() and num()
    start, stop, step,      \* locals of slice()
    numFor,                 \* which of start / end / step num() is reading
    caller,                 \* who called slice(): "key" or "bracket"
    rd,                     \* inside recursive_descent()
    anyi,                   \* position of the any(...) generator in key()
    key,                    \* the selector just parsed
    todo, new_results,      \* locals of _recursive_descent_key
    prevResults,            \* the result set the last selector was applied to
    nseg,                   \* segments applied so far in this call
    pops,                   \* work-list pops of the last recursive descent
    lastOp                  \* the cursor operation of the last step

vars ==
    <<path, data, idx, curr, results, call, parseOut, pc, k, quote_type, start,
      stop, step, numFor, caller, rd, anyi, key, todo, new_results,
      prevResults, nseg, pops, lastOp>>

cursorV == <<idx, curr>>
sliceV == <<start, stop, step, numFor, caller>>
evalV == <<results, todo, new_results, prevResults, nseg, pops>>
inputV == <<path, data, call, parseOut>>

Terminal ==
    {"done", "ParseError", "ValueError", "RecursionError", "AssertionError:child",
     "AssertionError:advance", "AssertionError:curr", "AssertionError:internal"}

NoOp == [op |-> "none", c |-> None, hit |-> FALSE]
MatchOp(c, h) == [op |-> "match", c |-> c, hit |-> h]
AdvanceOp == [op |-> "advance", c |-> None, hit |-> FALSE]

(***************************************************************************)
(* The cursor.                                                             *)
(***************************************************************************)
at_end == idx >= Len(path)

\* advance that keeps the old _curr when it reaches the end
advance_stale(next) ==
    IF at_end
    THEN pc' = "AssertionError:advance" /\ UNCHANGED cursorV
    ELSE /\ idx' = idx + 1
         /\ curr' = (IF idx + 1 >= Len(path) THEN curr ELSE path[idx + 2])
         /\ pc' = next

\* advance(): then continue at next
advance(next) ==
    IF at_end
    THEN pc' = "AssertionError:advance" /\ UNCHANGED cursorV
    ELSE /\ idx' = idx + 1
         /\ curr' = (IF idx + 1 >= Len(path) THEN None ELSE path[idx + 2])
         /\ pc' = next

\* match(c): continue at hit when it returns True, at miss when False
match(c, hit, miss) ==
    /\ lastOp' = MatchOp(c, curr = c)
    /\ IF curr = c THEN advance(hit)
       ELSE pc' = miss /\ UNCHANGED cursorV

\* consume(c, where): continue at next, or raise ParseError
consume(c, next) ==
    IF at_end
    THEN pc' = "ParseError" /\ lastOp' = NoOp /\ UNCHANGED cursorV
    ELSE match(c, next, "ParseError")

\* __post_init__
FirstChar(p) == IF Len(p) = 0 THEN None ELSE p[1]

(***************************************************************************)
(* Pure parts of the parser and of the recursive descent.                  *)
(***************************************************************************)
\* InitResults with the result set left empty
InitResults_unseeded(d) == <<>>

\* query(): self.results = [self.data]
InitResults(d) == <<d>>

\* key(): the characters a key name can't start with
Forbidden == <<".", "$", "[">>
Quotes == {"'", "\""}

\* num(): the value returned for the characters collected in k
num_result(ks) ==
    IF ks = <<>> THEN [ok |-> TRUE, val |-> NoneInt]
    ELSE IF IntOf(ks).ok THEN [ok |-> TRUE, val |-> Some(IntOf(ks).n)]
    ELSE [ok |-> FALSE, val |-> NoneInt]

\* bare_slice without the special case for -1
bare_slice_plain(st) ==
    IF ~st.some THEN NoKey
    ELSE SliceKey(st, Some(st.n + 1), NoneInt)

\* slice(): the result when no ':' follows start
bare_slice(st) ==
    IF ~st.some THEN NoKey
    ELSE IF st.n = -1 THEN SliceKey(st, NoneInt, NoneInt)
    ELSE SliceKey(st, Some(st.n + 1), NoneInt)

\* bracket(): the str returned for a quoted name
quoted_key(ks) == StrKey(ks)

\* rd_visit pushing the children of an Object or Array unreversed
rd_visit_forward(node, sel) ==
    IF sel.t = "str" /\ sel.s = <<"*">>
    THEN LET new_values == apply_star(<<node>>)
         IN  [ok |-> TRUE, found |-> new_values, push |-> Reverse(new_values)]
    ELSE IF IsDict(node)
    THEN [ok |-> TRUE,
          found |-> IF sel.t = "str" /\ HasKey(node, sel.s)
                    THEN <<Lookup(node, sel.s)>> ELSE <<>>,
          push |-> Values(node)]
    ELSE IF IsList(node)
    THEN LET sl == IF sel.t = "slice" THEN PySlice(node.v, sel)
                   ELSE [ok |-> TRUE, items |-> <<>>]
         IN  [ok |-> sl.ok, found |-> sl.items, push |-> node.v]
    ELSE [ok |-> TRUE, found |-> <<>>, push |-> <<>>]

\* rd_visit whose wildcard branch does not schedule the values it collects
rd_visit_shallow(node, sel) ==
    IF sel.t = "str" /\ sel.s = <<"*">>
    THEN [ok |-> TRUE, found |-> apply_star(<<node>>), push |-> <<>>]
    ELSE IF IsDict(node)
    THEN [ok |-> TRUE,
          found |-> IF sel.t = "str" /\ HasKey(node, sel.s)
                    THEN <<Lookup(node, sel.s)>> ELSE <<>>,
          push |-> Reverse(Values(node))]
    ELSE IF IsList(node)
    THEN LET sl == IF sel.t = "slice" THEN PySlice(node.v, sel)
                   ELSE [ok |-> TRUE, items |-> <<>>]
         IN  [ok |-> sl.ok, found |-> sl.items, push |-> Reverse(node.v)]
    ELSE [ok |-> TRUE, found |-> <<>>, push |-> <<>>]

\* rd_visit whose wildcard branch falls through into the Object and Array
\* branches (if in place of elif), scheduling the children a second time
rd_visit_fallthrough(node, sel) ==
    IF sel.t = "str" /\ sel.s = <<"*">>
    THEN LET new_values == apply_star(<<node>>)
         IN  [ok |-> TRUE, found |-> new_values,
              push |-> Reverse(new_values) \o Reverse(new_values)]
    ELSE IF IsDict(node)
    THEN [ok |-> TRUE,
          found |-> IF sel.t = "str" /\ HasKey(node, sel.s)
                    THEN <<Lookup(node, sel.s)>> ELSE <<>>,
          push |-> Reverse(Values(node))]
    ELSE IF IsList(node)
    THEN LET sl == IF sel.t = "slice" THEN PySlice(node.v, sel)
                   ELSE [ok |-> TRUE, items |-> <<>>]
         IN  [ok |-> sl.ok, found |-> sl.items, push |-> Reverse(node.v)]
    ELSE [ok |-> TRUE, found |-> <<>>, push |-> <<>>]

\* _recursive_descent_key: what visiting one node adds to new_results
\* (found) and to the end of todo (push)
rd_visit(node, sel) ==
    IF sel.t = "str" /\ sel.s = <<"*">>
    THEN LET new_values == apply_star(<<node>>)
         IN  [ok |-> TRUE, found |-> new_values, push |-> Reverse(new_values)]
    ELSE IF IsDict(node)
    THEN [ok |-> TRUE,
          found |-> IF sel.t = "str" /\ HasKey(node, sel.s)
                    THEN <<Lookup(node, sel.s)>> ELSE <<>>,
          push |-> Reverse(Values(node))]
    ELSE IF IsList(node)
    THEN LET sl == IF sel.t = "slice" THEN PySlice(node.v, sel)
                   ELSE [ok |-> TRUE, items |-> <<>>]
         IN  [ok |-> sl.ok, found |-> sl.items, push |-> Reverse(node.v)]
    ELSE [ok |-> TRUE, found |-> <<>>, push |-> <<>>]

\* where a parsed selector goes: recursive_descent() or child()
Deliver == IF rd THEN "rd_start" ELSE "apply"

(***************************************************************************)
(* The steps of the runner.                                                *)
(***************************************************************************)
\* query(): initialise the result set and consume the leading '$'
Query ==
    /\ pc = "query"
    /\ results' = InitResults(data)
    /\ consume("$", "child")
    /\ UNCHANGED <<inputV, k, quote_type, sliceV, rd, anyi, key, todo,
                   new_results, prevResults, nseg, pops>>

\* child(): return at the end of the path, else try '.'
Child ==
    /\ pc = "child"
    /\ IF at_end
       THEN pc' = "done" /\ lastOp' = NoOp /\ UNCHANGED cursorV
       ELSE match(".", "child_dot", "child_lb")
    /\ UNCHANGED <<inputV, k, quote_type, sliceV, rd, anyi, key, evalV>>

\* child(): after a '.', a second '.' starts a recursive descent; the
\* locals of the previous segment are gone
ChildDot ==
    /\ pc = "child_dot"
    /\ match(".", "rd", "key")
    /\ rd' = FALSE
    /\ quote_type' = None
    /\ UNCHANGED <<inputV, k, sliceV, anyi, key, evalV>>

\* child(): no '.', so '[' or the failed assertion (or, with assertions
\* compiled out, the unbounded recursion of child() on the same character)
ChildBracket ==
    /\ pc = "child_lb"
    /\ \E failure \in {"AssertionError:child", "RecursionError"} :
           match("[", "bracket", failure)
    /\ rd' = FALSE
    /\ quote_type' = None
    /\ UNCHANGED <<inputV, k, sliceV, anyi, key, evalV>>

\* recursive_descent(): a bracket selector or a key
RecursiveDescent ==
    /\ pc = "rd"
    /\ match("[", "bracket", "key")
    /\ rd' = TRUE
    /\ UNCHANGED <<inputV, k, quote_type, sliceV, anyi, key, evalV>>

\* key(): a key is expected
Key ==
    /\ pc = "key"
    /\ pc' = IF at_end THEN "ParseError" ELSE "key_any"
    /\ anyi' = 1
    /\ lastOp' = NoOp
    /\ UNCHANGED <<inputV, cursorV, k, quote_type, sliceV, rd, key, evalV>>

\* key(): any(self.match(c) for c in (".", "$", "[")), then slice()
KeyAny ==
    /\ pc = "key_any"
    /\ match(Forbidden[anyi], "ParseError", IF anyi = 3 THEN "num" ELSE "key_any")
    /\ anyi' = IF anyi < 3 THEN anyi + 1 ELSE anyi
    /\ IF anyi = 3 /\ curr # Forbidden[anyi]
       THEN /\ numFor' = "start" /\ caller' = "key"
            /\ start' = NoneInt /\ stop' = NoneInt /\ step' = NoneInt
       ELSE UNCHANGED sliceV
    /\ UNCHANGED <<inputV, k, quote_type, rd, key, evalV>>

\* num(): the optional '-'
NumBegin ==
    /\ pc = "num"
    /\ match("-", "num_loop", "num_loop")
    /\ k' = IF curr = "-" THEN <<"-">> ELSE <<>>
    /\ UNCHANGED <<inputV, quote_type, sliceV, rd, anyi, key, evalV>>

\* num(): one digit of the loop, or the return into slice()
NumLoop ==
    /\ pc = "num_loop"
    /\ IF ~at_end /\ curr = None
       THEN /\ pc' = "AssertionError:curr" /\ lastOp' = NoOp
            /\ UNCHANGED <<cursorV, k, start, stop, step, key>>
       ELSE IF ~at_end /\ isnumeric(curr)
       THEN /\ advance("num_loop") /\ lastOp' = AdvanceOp
            /\ k' = Append(k, curr)
            /\ UNCHANGED <<start, stop, step, key>>
       ELSE /\ lastOp' = NoOp
            /\ UNCHANGED <<cursorV, k>>
            /\ LET r == num_result(k)
               IN  IF ~r.ok
                   THEN pc' = "ValueError" /\ UNCHANGED <<start, stop, step, key>>
                   ELSE IF numFor = "start"
                   THEN pc' = "slice_c1" /\ start' = r.val /\ UNCHANGED <<stop, step, key>>
                   ELSE IF numFor = "end"
                   THEN pc' = "slice_c2" /\ stop' = r.val /\ UNCHANGED <<start, step, key>>
                   ELSE /\ pc' = "slice_ret" /\ step' = r.val
                        /\ key' = SliceKey(start, stop, r.val)
                        /\ UNCHANGED <<start, stop>>
    /\ UNCHANGED <<inputV, quote_type, numFor, caller, rd, anyi, evalV>>

\* slice(): after start, a ':' leads to end, otherwise a bare subscript or None
SliceColon1 ==
    /\ pc = "slice_c1"
    /\ match(":", "num", "slice_ret")
    /\ IF curr = ":"
       THEN numFor' = "end" /\ key' = key
       ELSE numFor' = numFor /\ key' = bare_slice(start)
    /\ UNCHANGED <<inputV, k, quote_type, start, stop, step, caller, rd, anyi, evalV>>

\* slice(): after end, a second ':' leads to step
SliceColon2 ==
    /\ pc = "slice_c2"
    /\ match(":", "num", "slice_ret")
    /\ IF curr = ":"
       THEN numFor' = "step" /\ key' = key
       ELSE numFor' = numFor /\ key' = SliceKey(start, stop, NoneInt)
    /\ UNCHANGED <<inputV, k, quote_type, start, stop, step, caller, rd, anyi, evalV>>

\* what key() and bracket() do with the result of slice()
SliceReturn ==
    /\ pc = "slice_ret"
    /\ lastOp' = NoOp
    /\ IF caller = "key"
       THEN IF key.t # "none"
            THEN pc' = Deliver /\ k' = k
            ELSE pc' = "key_scan" /\ k' = <<>>
       ELSE /\ pc' = IF key.t = "none" THEN "ParseError" ELSE "br_close"
            /\ k' = k
    /\ UNCHANGED <<inputV, cursorV, quote_type, sliceV, rd, anyi, key, evalV>>

\* key(): the loop collecting the characters of a plain key
KeyScan ==
    /\ pc = "key_scan"
    /\ IF ~at_end /\ curr = None
       THEN /\ pc' = "AssertionError:curr" /\ lastOp' = NoOp
            /\ UNCHANGED <<cursorV, k, key>>
       ELSE IF ~at_end /\ curr \notin {".", "["}
       THEN IF curr \in Quotes
            THEN /\ pc' = "ParseError" /\ lastOp' = NoOp
                 /\ UNCHANGED <<cursorV, k, key>>
            ELSE /\ advance("key_scan") /\ lastOp' = AdvanceOp
                 /\ k' = Append(k, curr)
                 /\ key' = key
       ELSE /\ pc' = Deliver /\ lastOp' = NoOp
            /\ key' = StrKey(k)
            /\ UNCHANGED <<cursorV, k>>
    /\ UNCHANGED <<inputV, quote_type, sliceV, rd, anyi, evalV>>

\* bracket(): '*' or something else
Bracket ==
    /\ pc = "bracket"
    /\ match("*", "br_star", "br_q1")
    /\ UNCHANGED <<inputV, k, quote_type, sliceV, rd, anyi, key, evalV>>

\* bracket(): the ']' after '*'
BracketStar ==
    /\ pc = "br_star"
    /\ consume("]", Deliver)
    /\ key' = IF ~at_end /\ curr = "]" THEN Star ELSE key
    /\ UNCHANGED <<inputV, k, quote_type, sliceV, rd, anyi, evalV>>

\* bracket(): a single quote opens a quoted name
BracketQuote1 ==
    /\ pc = "br_q1"
    /\ match("'", "br_str", "br_q2")
    /\ IF curr = "'"
       THEN quote_type' = "'" /\ k' = <<>>
       ELSE UNCHANGED <<quote_type, k>>
    /\ UNCHANGED <<inputV, sliceV, rd, anyi, key, evalV>>

\* bracket(): a double quote opens a quoted name, anything else a subscript
BracketQuote2 ==
    /\ pc = "br_q2"
    /\ match("\"", "br_str", "num")
    /\ IF curr = "\""
       THEN /\ quote_type' = "\"" /\ k' = <<>>
            /\ UNCHANGED sliceV
       ELSE /\ quote_type' = None /\ k' = k
            /\ numFor' = "start" /\ caller' = "bracket"
            /\ start' = NoneInt /\ stop' = NoneInt /\ step' = NoneInt
    /\ UNCHANGED <<inputV, rd, anyi, key, evalV>>

\* bracket(): the loop collecting a quoted name, up to the closing quote
BracketString ==
    /\ pc = "br_str"
    /\ IF ~at_end /\ curr # quote_type
       THEN /\ advance("br_str") /\ lastOp' = AdvanceOp
            /\ k' = Append(k, curr)
       ELSE /\ k' = k
            /\ IF at_end
               THEN pc' = "ParseError" /\ lastOp' = NoOp /\ UNCHANGED cursorV
               ELSE match(quote_type, "br_str_close", "AssertionError:internal")
    /\ UNCHANGED <<inputV, quote_type, sliceV, rd, anyi, key, evalV>>

\* bracket(): the ']' after a quoted name
BracketStringClose ==
    /\ pc = "br_str_close"
    /\ consume("]", Deliver)
    /\ key' = IF ~at_end /\ curr = "]" THEN quoted_key(k) ELSE key
    /\ UNCHANGED <<inputV, k, quote_type, sliceV, rd, anyi, evalV>>

\* bracket(): the ']' after a subscript or slice
BracketClose ==
    /\ pc = "br_close"
    /\ consume("]", Deliver)
    /\ UNCHANGED <<inputV, k, quote_type, sliceV, rd, anyi, key, evalV>>

\* child(): apply the selector to the result set, then child() again
Apply ==
    /\ pc = "apply"
    /\ lastOp' = NoOp
    /\ IF key.t = "str"
       THEN /\ results' = apply_key(results, key)
            /\ pc' = "child"
       ELSE LET r == apply_slice(results, key)
            IN  IF r.ok
                THEN results' = r.items /\ pc' = "child"
                ELSE results' = results /\ pc' = "ValueError"
    /\ prevResults' = results
    /\ nseg' = nseg + 1
    /\ UNCHANGED <<inputV, cursorV, k, quote_type, sliceV, rd, anyi, key,
                   todo, new_results, pops>>

\* _recursive_descent_key: the work-list starts as the reversed result set
RdStart ==
    /\ pc = "rd_start"
    /\ lastOp' = NoOp
    /\ pc' = "rd_loop"
    /\ new_results' = <<>>
    /\ todo' = Reverse(results)
    /\ prevResults' = results
    /\ pops' = 0
    /\ UNCHANGED <<inputV, cursorV, k, quote_type, sliceV, rd, anyi, key,
                   results, nseg>>

\* _recursive_descent_key: one iteration of the while loop
RdStep ==
    /\ pc = "rd_loop"
    /\ todo # <<>>
    /\ lastOp' = NoOp
    /\ LET node == todo[Len(todo)]
           rest == SubSeq(todo, 1, Len(todo) - 1)
           r == rd_visit(node, key)
       IN  IF r.ok
           THEN /\ new_results' = new_results \o r.found
                /\ todo' = rest \o r.push
                /\ pc' = "rd_loop"
           ELSE /\ new_results' = new_results
                /\ todo' = rest
                /\ pc' = "ValueError"
    /\ pops' = pops + 1
    /\ UNCHANGED <<inputV, cursorV, k, quote_type, sliceV, rd, anyi, key,
                   results, prevResults, nseg>>

\* recursive_descent(): the loop is over, its output is the result set
RdReturn ==
    /\ pc = "rd_loop"
    /\ todo = <<>>
    /\ lastOp' = NoOp
    /\ results' = new_results
    /\ pc' = "child"
    /\ nseg' = nseg + 1
    /\ UNCHANGED <<inputV, cursorV, k, quote_type, sliceV, rd, anyi, key,
                   todo, new_results, prevResults, pops>>

\* JsonPathQueryRunner(d, p): the state after construction
Construct(d, p) ==
    /\ path' = p
    /\ data' = d
    /\ idx' = 0
    /\ curr' = FirstChar(p)
    /\ results' = <<>>
    /\ pc' = "query"
    /\ k' = <<>> /\ quote_type' = None
    /\ start' = NoneInt /\ stop' = NoneInt /\ step' = NoneInt
    /\ numFor' = "start" /\ caller' = "key"
    /\ rd' = FALSE /\ anyi' = 1 /\ key' = NoKey
    /\ todo' = <<>> /\ new_results' = <<>>
    /\ prevResults' = <<>> /\ nseg' = 0 /\ pops' = 0
    /\ lastOp' = NoOp

\* query(data, path), called once parse(path) has returned or raised
CallQuery ==
    /\ call = "parse"
    /\ pc \in Terminal
    /\ \E d \in DataSet : Construct(d, path)
    /\ call' = "query"
    /\ parseOut' = pc

\* parse(path): the runner is constructed on the placeholder {}
Init ==
    /\ path \in Paths
    /\ data = EmptyObj
    /\ idx = 0
    /\ curr = FirstChar(path)
    /\ results = <<>>
    /\ call = "parse"
    /\ parseOut = "none"
    /\ pc = "query"
    /\ k = <<>> /\ quote_type = None
    /\ start = NoneInt /\ stop = NoneInt /\ step = NoneInt
    /\ numFor = "start" /\ caller = "key"
    /\ rd = FALSE /\ anyi = 1 /\ key = NoKey
    /\ todo = <<>> /\ new_results = <<>>
    /\ prevResults = <<>> /\ nseg = 0 /\ pops = 0
    /\ lastOp = NoOp

Next ==
    \/ Query \/ Child \/ ChildDot \/ ChildBracket \/ RecursiveDescent
    \/ Key \/ KeyAny \/ NumBegin \/ NumLoop \/ SliceColon1 \/ SliceColon2
    \/ SliceReturn \/ KeyScan \/ Bracket \/ BracketStar \/ BracketQuote1
    \/ BracketQuote2 \/ BracketString \/ BracketStringClose \/ BracketClose
    \/ Apply \/ RdStart \/ RdStep \/ RdReturn \/ CallQuery

Spec == Init /\ [][Next]_vars

\* the runner keeps executing until it returns or raises
FairSpec == Spec /\ WF_vars(Next)

Terminated == pc \in Terminal
Returned == pc = "done"

(***************************************************************************)
(* Reference definitions used to state the properties.                     *)
(***************************************************************************)
Range(s) == {s[i] : i \in 1..Len(s)}
Count(v, s) == Cardinality({i \in 1..Len(s) : s[i] = v})
SameBag(a, b) ==
    /\ Len(a) = Len(b)
    /\ \A v \in Range(a) \cup Range(b) : Count(v, a) = Count(v, b)

\* the values of an Object in key order, the items of an Array in index order
Children(node) ==
    IF IsDict(node) THEN Values(node)
    ELSE IF IsList(node) THEN node.v
    ELSE <<>>

\* the values under name met in a depth-first pre-order walk
RECURSIVE PreorderMatches(_, _), PreorderMatchesAll(_, _)
PreorderMatches(node, name) ==
    (IF IsDict(node) /\ HasKey(node, name) THEN <<Lookup(node, name)>> ELSE <<>>)
        \o PreorderMatchesAll(Children(node), name)

PreorderMatchesAll(nodes, name) ==
    IF nodes = <<>> THEN <<>>
    ELSE PreorderMatches(Head(nodes), name) \o PreorderMatchesAll(Tail(nodes), name)

\* the proper descendants of a node, one entry per position
RECURSIVE Descendants(_), DescendantsAll(_)
Descendants(node) == DescendantsAll(Children(node))

DescendantsAll(nodes) ==
    IF nodes = <<>> THEN <<>>
    ELSE <<Head(nodes)>> \o Descendants(Head(nodes)) \o DescendantsAll(Tail(nodes))

NodeCount(node) == 1 + Len(Descendants(node))

RECURSIVE NodeCountAll(_)
NodeCountAll(nodes) ==
    IF nodes = <<>> THEN 0 ELSE NodeCount(Head(nodes)) + NodeCountAll(Tail(nodes))

\* what one input contributes under a single-level selector
OwnMatches(input, sel) ==
    IF sel.t = "str" /\ sel.s = <<"*">> THEN Children(input)
    ELSE IF sel.t = "str"
    THEN (IF IsDict(input) /\ HasKey(input, sel.s) THEN <<Lookup(input, sel.s)>> ELSE <<>>)
    ELSE (IF IsList(input) THEN PySlice(input.v, sel).items ELSE <<>>)

\* the number of output entries owed to the first i inputs
RECURSIVE Offset(_, _, _)
Offset(inputs, sel, i) ==
    IF i = 0 THEN 0
    ELSE Offset(inputs, sel, i - 1) + Len(OwnMatches(inputs[i], sel))

InputMajor(out, inputs, sel) ==
    /\ Len(out) = Offset(inputs, sel, Len(inputs))
    /\ \A i \in 1..Len(inputs) :
           \A j \in 1..Len(OwnMatches(inputs[i], sel)) :
               out[Offset(inputs, sel, i - 1) + j] = OwnMatches(inputs[i], sel)[j]

\* the values under name of the Object inputs that contain it
RECURSIVE KeyOnly(_, _)
KeyOnly(inputs, name) ==
    IF inputs = <<>> THEN <<>>
    ELSE (IF IsDict(Head(inputs)) /\ HasKey(Head(inputs), name)
          THEN <<Lookup(Head(inputs), name)>> ELSE <<>>)
         \o KeyOnly(Tail(inputs), name)

\* a segment has just been applied (or the call has returned after one)
AfterSegment == pc \in {"child", "done"} /\ nseg > 0
AfterPlain == AfterSegment /\ ~rd
AfterDescent == AfterSegment /\ rd

(***************************************************************************)
(* Properties.                                                             *)
(***************************************************************************)
\* C1: a call either returns a list or raises ParseError; no other kind of
\* failure is produced, neither by the parser nor by applying a selector.
C1_OnlyParseError == Terminated => pc \in {"done", "ParseError"}

\* C2: grammar-acceptance parity: parse(path) raises ParseError iff
\* query(data, path) raises ParseError, whatever data is.
C2_Parity ==
    (call = "query" /\ Terminated) => ((parseOut = "ParseError") <=> (pc = "ParseError"))

\* C3: query(data, "$") returns [data] for every Json value data.
C3_RootOnly == (Returned /\ path = <<"$">>) => results = <<data>>

C3_Witness ==
    /\ Returned /\ call = "query" /\ path = <<"$">>
    /\ data = DocKeys /\ results = <<DocKeys>>

\* C4: a bare subscript n, "$[n]" or "$.n", is parsed as Slice(-1, None, None)
\* when n = -1 and as Slice(n, n+1, None) otherwise, and on an Array of
\* length L it returns [arr[n]] when -L <= n < L and [] otherwise.
C4_BareSubscript ==
    \A n \in (0 - MaxIdx)..MaxIdx :
        (Returned /\ path \in {BracketSubscript(n), DotSubscript(n)}) =>
            /\ key = (IF n = -1 THEN SliceKey(Some(n), NoneInt, NoneInt)
                      ELSE SliceKey(Some(n), Some(n + 1), NoneInt))
            /\ IsList(data) =>
                   LET len == Len(data.v)
                   IN  results = IF 0 - len <= n /\ n < len
                                 THEN <<data.v[(IF n < 0 THEN n + len ELSE n) + 1]>>
                                 ELSE <<>>

C4_Witness ==
    /\ Returned /\ path = BracketSubscript(-1)
    /\ data = Iota(2) /\ results = <<Num(2)>>

\* C5: after a recursive-descent key segment "..name" the result set is the
\* values under name of the Objects met in a depth-first pre-order walk of
\* the start nodes, each start node explored fully before the next one and
\* an outer match collected before the matches inside it.
C5_DescentKeyPreorder ==
    (AfterDescent /\ key.t = "str" /\ key.s # <<"*">>) =>
        results = PreorderMatchesAll(prevResults, key.s)

C5_Witness ==
    /\ Returned /\ path = <<"$", ".", ".", "a">> /\ data = DocNested
    /\ Len(results) = 2 /\ results[2] = Num(1)

\* C6: after a recursive-descent wildcard on a single start node the result
\* set holds every proper descendant of that node exactly once and nothing
\* else; the start node itself is not in it.
C6_DescentStarAll ==
    (AfterDescent /\ key = Star /\ Len(prevResults) = 1) =>
        /\ Len(results) = Len(Descendants(prevResults[1]))
        /\ SameBag(results, Descendants(prevResults[1]))
        /\ prevResults[1] \notin Range(results)

C6_Witness ==
    /\ Returned /\ path = <<"$", ".", ".", "*">> /\ data = DocLists
    /\ Len(results) = 7

C8_QuotedIsKey ==
    (AfterPlain /\ quote_type # None) =>
        /\ key = StrKey(k)
        /\ results = KeyOnly(prevResults, k)

\* C9: the cursor invariant: 0 <= idx <= len(path); _curr is path[idx] when
\* idx < len(path) and None otherwise; advance() is never called at the end;
\* idx never decreases within a call; match(c) advances idx by exactly one
\* when the current character is c and leaves it unchanged otherwise.
C9_Cursor ==
    /\ [](/\ 0 <= idx /\ idx <= Len(path)
          /\ curr = (IF idx < Len(path) THEN path[idx + 1] ELSE None)
          /\ pc # "AssertionError:advance")
    /\ [][/\ call' = call => idx' >= idx
          /\ lastOp'.op = "match" =>
                 idx' = idx + (IF curr = lastOp'.c THEN 1 ELSE 0)]_vars

C9_Witness ==
    /\ lastOp = MatchOp(":", FALSE)
    /\ idx = Len(path) /\ idx > 0 /\ curr = None

\* C10: every call terminates, by returning or by raising; each applied
\* segment has consumed at least one character, so at most len(path)
\* segments are applied; a recursive-descent loop ends with an empty
\* work-list after one pop per node reachable from each start node.
C10_Terminates ==
    /\ <>(call = "query" /\ Terminated)
    /\ [](nseg <= idx /\ nseg <= Len(path))
    /\ [](pc = "rd_loop" => pops <= NodeCountAll(prevResults))
    /\ [](AfterDescent => (todo = <<>> /\ pops = NodeCountAll(prevResults)))

C10_Witness ==
    /\ Returned /\ call = "query" /\ rd /\ nseg = 2
    /\ data = DocLists /\ pops > 8
=============================================================================
